---- MODULE Spec2Model ----
(***************************************************************************)
(* PikIntercomCamera (custom_components/pik_intercom/camera.py): the still *)
(* image getter async_camera_image with its failure counter, the floored   *)
(* retrieval error threshold and the property refresh it triggers.         *)
(*                                                                         *)
(* A fetch is a coroutine.  It runs without interruption between its       *)
(* suspension points, which are the three awaits: the device's snapshot    *)
(* operation, the media helper's frame probe and the API object's property *)
(* refresh.  Each action below is one such uninterrupted piece of the      *)
(* coroutine; what the awaited operation delivers (a value or a raised     *)
(* error) is the action's input.                                           *)
(***************************************************************************)
EXTENDS Integers, Sequences, FiniteSets, TLC

\* ------------------------------------------------------------------ bounds
NTasks == 2            \* fetches that may overlap on the one adapter
MaxConfigured == 6     \* largest configured retrieval-error-threshold value
MaxUrl == 2            \* distinct non-empty stream URLs
MaxPhotoUrl == 1       \* distinct non-empty photo URLs
MaxSize == 1           \* distinct non-None width/height values
MaxImage == 2          \* distinct non-None image byte strings
MaxPropertyId == 1     \* distinct property ids

\* ------------------------------------------------------- program constants
MinThreshold == 5      \* the floor in retrieval_error_threshold

\* ------------------------------------------------------------------ values
Tasks == 1..NTasks
SeqTasks == {1}
NoneValue == 0                       \* Python None (image, size) / falsy URL
Images == 1..MaxImage
Sizes == NoneValue..MaxSize
Urls == NoneValue..MaxUrl
PhotoUrls == NoneValue..MaxPhotoUrl
PropertyIds == 1..MaxPropertyId
\* below the floor, at it and above it
ConfiguredValues == {0 - 1, 0, 1, MinThreshold} \cup (MinThreshold + 1)..MaxConfigured
PikIntercomException == "PikIntercomException"
OtherError == "OtherError"
Errors == {PikIntercomException, OtherError}

Truthy(u) == u # NoneValue

\* what an awaited operation delivered, and what a fetch gave its caller
NoOutcome == [kind |-> "none", val |-> NoneValue, err |-> ""]
Value(v) == [kind |-> "value", val |-> v, err |-> ""]
Raise(e) == [kind |-> "raise", val |-> NoneValue, err |-> e]

VARIABLES
    counter,                 \* self._failed_retrieval_counter
    configured,              \* hass.data[DATA_FINAL_CONFIG][entry][CONF_RETRIEVAL_ERROR_THRESHOLD]
    photo_url,               \* intercom_device.photo_url
    stream_url,              \* intercom_device.stream_url
    property_id,             \* intercom_device.property_id
    pc,                      \* where each fetch stands
    width, height,           \* the fetch's arguments
    local_stream_url,        \* the fetch's local stream_url
    failed_retrieval_counter,\* the fetch's local failed_retrieval_counter
    result,                  \* what the fetch gave its caller
    snapshot_calls,          \* calls of intercom_device.async_get_snapshot by the fetch
    ffmpeg_calls,            \* calls of ffmpeg.async_get_image by the fetch, with arguments
    refresh_calls,           \* calls of async_update_property_intercoms by the fetch, with argument
    snapshot_outcome,        \* what the awaited snapshot operation delivered
    ffmpeg_outcome,          \* what the awaited media probe delivered
    refresh_outcome,         \* what the awaited refresh delivered
    seen_photo_url,          \* the photo URL the fetch read on entry
    counter_at_call,         \* history: the counter when the last fetch was called
    run,                     \* history: how many fetches in a row have failed
                             \* with PikIntercomException, the first of them
                             \* called at counter 0; -1 when the last fetch
                             \* belongs to no such run
    prev_refresh_raised      \* history: the fetch before the last one called
                             \* ended in a refresh that raised

deviceVars == <<photo_url, stream_url, property_id>>
callVars == <<snapshot_calls, ffmpeg_calls, refresh_calls>>
outcomeVars == <<snapshot_outcome, ffmpeg_outcome, refresh_outcome>>
localVars == <<width, height, local_stream_url, failed_retrieval_counter>>
vars == <<counter, configured, deviceVars, pc, localVars, result, callVars,
          outcomeVars, seen_photo_url, counter_at_call, run,
          prev_refresh_raised>>

Max(a, b) == IF a >= b THEN a ELSE b

\* ------------------------------------------------- retrieval_error_threshold
\* the configured value is used as it is
retrieval_error_threshold_unfloored == configured

retrieval_error_threshold == Max(configured, MinThreshold)

\* ------------------------------------------------------------ __init__
Fresh ==
    /\ counter = 0
    /\ pc = [t \in Tasks |-> "idle"]
    /\ width = [t \in Tasks |-> NoneValue]
    /\ height = [t \in Tasks |-> NoneValue]
    /\ local_stream_url = [t \in Tasks |-> NoneValue]
    /\ failed_retrieval_counter = [t \in Tasks |-> 0]
    /\ result = [t \in Tasks |-> NoOutcome]
    /\ snapshot_calls = [t \in Tasks |-> 0]
    /\ ffmpeg_calls = [t \in Tasks |-> <<>>]
    /\ refresh_calls = [t \in Tasks |-> <<>>]
    /\ snapshot_outcome = [t \in Tasks |-> NoOutcome]
    /\ ffmpeg_outcome = [t \in Tasks |-> NoOutcome]
    /\ refresh_outcome = [t \in Tasks |-> NoOutcome]
    /\ seen_photo_url = [t \in Tasks |-> NoneValue]
    /\ counter_at_call = 0
    /\ run = 0
    /\ prev_refresh_raised = FALSE

Init ==
    /\ Fresh
    /\ configured \in ConfiguredValues
    /\ photo_url \in PhotoUrls
    /\ stream_url \in Urls
    /\ property_id \in PropertyIds

\* the run history: a fetch called at counter 0 begins a run; a fetch called
\* inside a run that has not reached the threshold continues it
NoRun == 0 - 1
RunAtCall ==
    IF counter = 0 THEN 0
    ELSE IF run >= 1 /\ run < retrieval_error_threshold THEN run
    ELSE NoRun
RunExtended == IF run >= 0 THEN run + 1 ELSE NoRun

\* a fetch is called: what was recorded about the previous one is cleared
Enter(t, w, h) ==
    /\ pc[t] \in {"idle", "done"}
    /\ width' = [width EXCEPT ![t] = w]
    /\ height' = [height EXCEPT ![t] = h]
    /\ failed_retrieval_counter' = [failed_retrieval_counter EXCEPT ![t] = 0]
    /\ refresh_calls' = [refresh_calls EXCEPT ![t] = <<>>]
    /\ snapshot_outcome' = [snapshot_outcome EXCEPT ![t] = NoOutcome]
    /\ ffmpeg_outcome' = [ffmpeg_outcome EXCEPT ![t] = NoOutcome]
    /\ refresh_outcome' = [refresh_outcome EXCEPT ![t] = NoOutcome]
    /\ seen_photo_url' = [seen_photo_url EXCEPT ![t] = photo_url]
    /\ counter_at_call' = counter
    /\ prev_refresh_raised' = (refresh_outcome[t].kind = "raise")
    /\ UNCHANGED <<configured, deviceVars>>

\* the fetch ends, giving r to its caller
Done(t, r) ==
    /\ pc' = [pc EXCEPT ![t] = "done"]
    /\ result' = [result EXCEPT ![t] = r]

\* ------------------------------------------ async_camera_image, up to its
\* first await (lines 149-168): the device's URLs are read; the media probe
\* or the snapshot operation is called, or the fetch ends at once.
\* probe_w, probe_h: the size handed to the media helper; no_video_counter:
\* the counter the "no video source" return leaves behind
Entry(t, w, h, probe_w, probe_h, no_video_counter) ==
    /\ Enter(t, w, h)
    /\ IF ~Truthy(photo_url)
       THEN /\ local_stream_url' = [local_stream_url EXCEPT ![t] = stream_url]
            /\ snapshot_calls' = [snapshot_calls EXCEPT ![t] = 0]
            /\ IF Truthy(stream_url)
               THEN /\ ffmpeg_calls' = [ffmpeg_calls EXCEPT ![t] =
                           <<[url |-> stream_url, width |-> probe_w,
                              height |-> probe_h]>>]
                    /\ pc' = [pc EXCEPT ![t] = "ffmpeg"]
                    /\ result' = [result EXCEPT ![t] = NoOutcome]
                    /\ run' = RunAtCall
                    /\ UNCHANGED counter
               ELSE /\ ffmpeg_calls' = [ffmpeg_calls EXCEPT ![t] = <<>>]
                    /\ counter' = no_video_counter
                    /\ Done(t, Value(NoneValue))
                    /\ run' = NoRun
       ELSE /\ local_stream_url' = [local_stream_url EXCEPT ![t] = NoneValue]
            /\ ffmpeg_calls' = [ffmpeg_calls EXCEPT ![t] = <<>>]
            /\ snapshot_calls' = [snapshot_calls EXCEPT ![t] = 1]
            /\ pc' = [pc EXCEPT ![t] = "snapshot"]
            /\ result' = [result EXCEPT ![t] = NoOutcome]
            /\ run' = RunAtCall
            /\ UNCHANGED counter

\* the size arguments are not passed on to the media helper
async_camera_image_drops_size(t, w, h) ==
    Entry(t, w, h, NoneValue, NoneValue, counter)

\* "no video source" is counted as a failed retrieval
async_camera_image_counts_no_video(t, w, h) ==
    Entry(t, w, h, w, h, (counter + 1) % retrieval_error_threshold)

async_camera_image(t, w, h) == Entry(t, w, h, w, h, counter)

\* camera_image (lines 136-142) schedules async_camera_image on the event
\* loop from another thread and blocks for its result: for the adapter it is
\* one more call of async_camera_image, which may overlap the others
camera_image(t, w, h) == async_camera_image(t, w, h)

\* what no resumption of a fetch touches
ResumeFrame == UNCHANGED <<configured, deviceVars, width, height,
                           local_stream_url, snapshot_calls, ffmpeg_calls,
                           seen_photo_url, counter_at_call,
                           prev_refresh_raised>>

\* a fetch that did not fail with PikIntercomException ends
EndsOutsideRun == run' = NoRun

\* ------------------------------ the media probe delivers (lines 154-163)
\* an image from the video feed resets the failure counter
FfmpegReturns_resets_counter(t, v) ==
    /\ pc[t] = "ffmpeg"
    /\ ffmpeg_outcome' = [ffmpeg_outcome EXCEPT ![t] = Value(v)]
    /\ Done(t, Value(v))
    /\ counter' = IF v = NoneValue THEN counter ELSE 0
    /\ EndsOutsideRun
    /\ ResumeFrame
    /\ UNCHANGED <<failed_retrieval_counter, refresh_calls, snapshot_outcome,
                   refresh_outcome>>

FfmpegReturns(t, v) ==
    /\ pc[t] = "ffmpeg"
    /\ ffmpeg_outcome' = [ffmpeg_outcome EXCEPT ![t] = Value(v)]
    /\ Done(t, IF v = NoneValue THEN Value(NoneValue) ELSE Value(v))
    /\ EndsOutsideRun
    /\ ResumeFrame
    /\ UNCHANGED <<counter, failed_retrieval_counter, refresh_calls,
                   snapshot_outcome, refresh_outcome>>

\* the media probe raises: nothing catches it (line 154)
FfmpegRaises(t, e) ==
    /\ pc[t] = "ffmpeg"
    /\ ffmpeg_outcome' = [ffmpeg_outcome EXCEPT ![t] = Raise(e)]
    /\ Done(t, Raise(e))
    /\ EndsOutsideRun
    /\ ResumeFrame
    /\ UNCHANGED <<counter, failed_retrieval_counter, refresh_calls,
                   snapshot_outcome, refresh_outcome>>

\* ---------------- the snapshot operation returns: the else branch (184-186)
\* the counter is not reset
SnapshotReturns_keeps_counter(t, img) ==
    /\ pc[t] = "snapshot"
    /\ snapshot_outcome' = [snapshot_outcome EXCEPT ![t] = Value(img)]
    /\ Done(t, Value(img))
    /\ EndsOutsideRun
    /\ ResumeFrame
    /\ UNCHANGED <<counter, failed_retrieval_counter, refresh_calls,
                   ffmpeg_outcome, refresh_outcome>>

SnapshotReturns(t, img) ==
    /\ pc[t] = "snapshot"
    /\ snapshot_outcome' = [snapshot_outcome EXCEPT ![t] = Value(img)]
    /\ counter' = 0
    /\ Done(t, Value(img))
    /\ EndsOutsideRun
    /\ ResumeFrame
    /\ UNCHANGED <<failed_retrieval_counter, refresh_calls, ffmpeg_outcome,
                   refresh_outcome>>

\* ------ the snapshot operation raises something the except clause does not
\* name (line 170): the error leaves the fetch
\* every exception is counted (a bare except), then raised again
SnapshotRaisesOther_counted(t) ==
    /\ pc[t] = "snapshot"
    /\ snapshot_outcome' = [snapshot_outcome EXCEPT ![t] = Raise(OtherError)]
    /\ counter' = (counter + 1) % retrieval_error_threshold
    /\ Done(t, Raise(OtherError))
    /\ EndsOutsideRun
    /\ ResumeFrame
    /\ UNCHANGED <<failed_retrieval_counter, refresh_calls, ffmpeg_outcome,
                   refresh_outcome>>

SnapshotRaisesOther(t) ==
    /\ pc[t] = "snapshot"
    /\ snapshot_outcome' = [snapshot_outcome EXCEPT ![t] = Raise(OtherError)]
    /\ Done(t, Raise(OtherError))
    /\ EndsOutsideRun
    /\ ResumeFrame
    /\ UNCHANGED <<counter, failed_retrieval_counter, refresh_calls,
                   ffmpeg_outcome, refresh_outcome>>

\* ------- the snapshot operation raises PikIntercomException: the except
\* clause and what follows the try statement, up to the await of the refresh
\* (lines 170-196).  c: the counter as incremented; soft: the comparison with
\* the threshold; at_await: the counter left behind when the refresh is awaited
Except(t, c, soft, at_await) ==
    /\ pc[t] = "snapshot"
    /\ snapshot_outcome' =
           [snapshot_outcome EXCEPT ![t] = Raise(PikIntercomException)]
    /\ failed_retrieval_counter' = [failed_retrieval_counter EXCEPT ![t] = c]
    /\ IF soft
       THEN /\ counter' = c
            /\ Done(t, Value(NoneValue))
            /\ UNCHANGED refresh_calls
       ELSE /\ counter' = at_await
            /\ refresh_calls' =
                   [refresh_calls EXCEPT ![t] = Append(@, property_id)]
            /\ pc' = [pc EXCEPT ![t] = "refresh"]
            /\ UNCHANGED result
    /\ run' = RunExtended
    /\ ResumeFrame
    /\ UNCHANGED <<ffmpeg_outcome, refresh_outcome>>

\* the comparison is <= instead of <
SnapshotRaisesPik_off_by_one(t) ==
    Except(t, counter + 1, counter + 1 <= retrieval_error_threshold, 0)

\* the incremented counter is not stored
SnapshotRaisesPik_not_counted(t) ==
    Except(t, counter, counter + 1 < retrieval_error_threshold, 0)

\* the counter is reset after the await of the refresh instead of before it
SnapshotRaisesPik_late_reset(t) ==
    Except(t, counter + 1, counter + 1 < retrieval_error_threshold, counter + 1)

SnapshotRaisesPik(t) ==
    Except(t, counter + 1, counter + 1 < retrieval_error_threshold, 0)

\* ---------------- the refresh returns: the fetch falls off its end (194-196)
RefreshReturns(t) ==
    /\ pc[t] = "refresh"
    /\ refresh_outcome' = [refresh_outcome EXCEPT ![t] = Value(NoneValue)]
    /\ Done(t, Value(NoneValue))
    /\ ResumeFrame
    /\ UNCHANGED <<counter, failed_retrieval_counter, refresh_calls,
                   snapshot_outcome, ffmpeg_outcome, run>>

\* ------------------- the refresh raises: nothing catches it (lines 194-196)
\* the error is swallowed and the fetch returns None
RefreshRaises_caught(t, e) ==
    /\ pc[t] = "refresh"
    /\ refresh_outcome' = [refresh_outcome EXCEPT ![t] = Raise(e)]
    /\ Done(t, Value(NoneValue))
    /\ ResumeFrame
    /\ UNCHANGED <<counter, failed_retrieval_counter, refresh_calls,
                   snapshot_outcome, ffmpeg_outcome, run>>

RefreshRaises(t, e) ==
    /\ pc[t] = "refresh"
    /\ refresh_outcome' = [refresh_outcome EXCEPT ![t] = Raise(e)]
    /\ Done(t, Raise(e))
    /\ ResumeFrame
    /\ UNCHANGED <<counter, failed_retrieval_counter, refresh_calls,
                   snapshot_outcome, ffmpeg_outcome, run>>

\* ------- the API client replaces the device's URLs (the device is owned and
\* mutated by the API client; this module only reads it)
UpdateDevice(p, s) ==
    /\ <<p, s>> # <<photo_url, stream_url>>
    /\ photo_url' = p
    /\ stream_url' = s
    /\ UNCHANGED <<counter, configured, property_id, pc, localVars, result,
                   callVars, outcomeVars, seen_photo_url, counter_at_call, run,
                   prev_refresh_raised>>

\* ------------------------------------------------------------ specifications
\* one piece of fetch t, with the inputs drawn from the given sets
Step(t, sizes, images, errors) ==
    \/ \E w \in sizes, h \in sizes : async_camera_image(t, w, h)
    \/ \E v \in images \cup {NoneValue} : FfmpegReturns(t, v)
    \/ \E e \in errors : FfmpegRaises(t, e)
    \/ \E img \in images : SnapshotReturns(t, img)
    \/ SnapshotRaisesPik(t)
    \/ SnapshotRaisesOther(t)
    \/ RefreshReturns(t)
    \/ \E e \in errors : RefreshRaises(t, e)

\* fetches one after the other: the next is called when the last has ended
Next ==
    \/ \E t \in SeqTasks : Step(t, Sizes, Images, Errors)
    \/ \E p \in PhotoUrls, s \in Urls : UpdateDevice(p, s)

Spec == Init /\ [][Next]_vars

\* fetches that overlap, called on the event loop or through camera_image:
\* any of them resumes at any of its awaits.  The values that only pass
\* through a fetch (sizes, image bytes, URLs, the property id) are held to one
\* each, and the threshold to its floor and its largest value.
ConcUrls == {NoneValue, 1}
InitConc ==
    /\ Fresh
    /\ configured \in {0, MaxConfigured}
    /\ photo_url \in ConcUrls
    /\ stream_url \in ConcUrls
    /\ property_id = MaxPropertyId

NextConc ==
    \/ \E t \in Tasks : Step(t, {NoneValue}, {MaxImage}, {PikIntercomException})
    \/ \E t \in Tasks : camera_image(t, NoneValue, NoneValue)
    \/ \E p \in ConcUrls, s \in ConcUrls : UpdateDevice(p, s)

SpecConc == InitConc /\ [][NextConc]_vars

\* =================================================================== claims
\* In the claims about fetches made one after the other (Spec) the fetches
\* are those of SeqTasks; T is the effective retrieval error threshold.

PikFailed(t) == snapshot_outcome[t] = Raise(PikIntercomException)
NoPhoto(t) == pc[t] # "idle" /\ ~Truthy(seen_photo_url[t])

\* C1 (as amended): in a run of consecutive fetches that each fail with
\* PikIntercomException, begun at counter 0, the threshold-th failure resets
\* the counter to 0 and makes exactly one refresh call, for the device's
\* property id, and no earlier fetch of the run makes one; the fetch returns
\* None when that refresh call returns.
C1_ThresholdFailureRefreshes ==
    \A t \in SeqTasks :
        PikFailed(t) /\ run >= 1 =>
            IF run < retrieval_error_threshold
            THEN refresh_calls[t] = <<>>
            ELSE /\ run = retrieval_error_threshold
                 /\ counter = 0
                 /\ refresh_calls[t] = <<property_id>>
                 /\ pc[t] \in {"refresh", "done"}
                 /\ (pc[t] = "done" /\ refresh_outcome[t].kind = "value"
                        => result[t] = Value(NoneValue))

\* C1 as stated: the threshold-th failure returns None, whatever the refresh does.
C1_ThresholdFailureAlwaysReturnsNone ==
    \A t \in SeqTasks :
        PikFailed(t) /\ run = retrieval_error_threshold /\ pc[t] = "done"
            => result[t] = Value(NoneValue)

C1_Witness ==
    \E t \in SeqTasks :
        /\ PikFailed(t) /\ run = retrieval_error_threshold /\ pc[t] = "done"
        /\ refresh_calls[t] = <<property_id>>
        /\ refresh_outcome[t].kind = "value"
        /\ result[t] = Value(NoneValue)
        /\ configured > MinThreshold

\* C2: after N < threshold consecutive failures with PikIntercomException,
\* begun at counter 0, the counter is N, and each of them returned None (the
\* exception did not leave the fetch) and called no refresh.
C2_SoftFailuresAreCounted ==
    run >= 1 /\ run < retrieval_error_threshold =>
        /\ counter = run
        /\ \A t \in SeqTasks :
               PikFailed(t) =>
                   /\ pc[t] = "done"
                   /\ result[t] = Value(NoneValue)
                   /\ failed_retrieval_counter[t] = run
                   /\ refresh_calls[t] = <<>>

C2_Witness ==
    \E t \in SeqTasks :
        /\ PikFailed(t) /\ pc[t] = "done"
        /\ run = retrieval_error_threshold - 1
        /\ counter = run

\* C3: a snapshot fetch that succeeds sets the counter to 0 from any counter
\* value, returns exactly the bytes the snapshot operation produced and calls
\* no refresh.
C3_SuccessResets ==
    \A t \in SeqTasks :
        pc[t] = "done" /\ snapshot_outcome[t].kind = "value" =>
            /\ counter = 0
            /\ result[t] = Value(snapshot_outcome[t].val)
            /\ refresh_calls[t] = <<>>

C3_Witness ==
    \E t \in SeqTasks :
        /\ pc[t] = "done" /\ snapshot_outcome[t] = Value(MaxImage)
        /\ counter_at_call = MinThreshold - 1
        /\ counter = 0

\* C4: the counter changes only by +1 or to 0, and it is set to 0 only by a
\* snapshot fetch that succeeds or by the failure that reaches the threshold.
C4_CounterSteps ==
    [][/\ counter' \in {counter, counter + 1, 0}
       /\ (counter' = 0 /\ counter # 0 =>
              \E t \in SeqTasks :
                  /\ pc[t] = "snapshot"
                  /\ \/ snapshot_outcome'[t].kind = "value"
                     \/ /\ snapshot_outcome'[t] = Raise(PikIntercomException)
                        /\ counter + 1 = retrieval_error_threshold)]_vars

C4_Witness ==
    \E t \in SeqTasks :
        /\ pc[t] = "refresh"
        /\ counter_at_call = retrieval_error_threshold - 1
        /\ counter = 0
        /\ configured = MaxConfigured

\* C5: when the refresh raises, the fetch raises that error to its caller
\* with the counter already at 0, and the next fetch that fails with
\* PikIntercomException is counted as failure 1.
C5_RefreshFailurePropagates ==
    \A t \in SeqTasks :
        /\ (pc[t] = "done" /\ refresh_outcome[t].kind = "raise" =>
               /\ result[t] = Raise(refresh_outcome[t].err)
               /\ counter = 0)
        /\ (prev_refresh_raised /\ PikFailed(t) =>
               /\ counter = 1
               /\ failed_retrieval_counter[t] = 1
               /\ result[t] = Value(NoneValue))

C5_Witness ==
    \E t \in SeqTasks :
        /\ prev_refresh_raised /\ PikFailed(t) /\ pc[t] = "done"
        /\ counter = 1

\* C6: the refresh is called on the 5th consecutive failure, and on no
\* earlier one, for every configured value of 5 or less, and on the c-th for
\* a configured value c above 5.
C6_ThresholdIsFlooredAtFive ==
    \A t \in SeqTasks :
        PikFailed(t) /\ run >= 1 =>
            (refresh_calls[t] # <<>>
                <=> run = IF configured <= MinThreshold THEN MinThreshold
                                                        ELSE configured)

C6_Witness ==
    \E t \in SeqTasks :
        /\ PikFailed(t) /\ run = MinThreshold
        /\ configured < 0
        /\ refresh_calls[t] # <<>>

\* C7: with no photo URL, the fetch probes the device's stream URL with the
\* width and height it was given and returns what the media helper returned,
\* or returns None without a probe when there is no stream URL.
C7_FallbackToStream ==
    \A t \in SeqTasks :
        pc[t] \in {"ffmpeg", "done"} /\ NoPhoto(t) =>
            IF Truthy(local_stream_url[t])
            THEN /\ ffmpeg_calls[t] = <<[url |-> local_stream_url[t],
                                         width |-> width[t],
                                         height |-> height[t]]>>
                 /\ (ffmpeg_outcome[t].kind = "value"
                        => result[t] = Value(ffmpeg_outcome[t].val))
            ELSE /\ ffmpeg_calls[t] = <<>>
                 /\ result[t] = Value(NoneValue)

C7_Witness ==
    \E t \in SeqTasks :
        /\ pc[t] = "done" /\ NoPhoto(t)
        /\ width[t] = MaxSize /\ height[t] = NoneValue
        /\ ffmpeg_outcome[t] = Value(MaxImage)
        /\ result[t] = Value(MaxImage)

\* C8: a fetch on a device with no photo URL calls neither the snapshot
\* operation nor the refresh and leaves the counter as it found it.
C8_NoPhotoLeavesApiAndCounterAlone ==
    \A t \in SeqTasks :
        pc[t] \in {"ffmpeg", "done"} /\ NoPhoto(t) =>
            /\ snapshot_calls[t] = 0
            /\ refresh_calls[t] = <<>>
            /\ counter = counter_at_call

C8_Witness ==
    \E t \in SeqTasks :
        /\ pc[t] = "done" /\ NoPhoto(t)
        /\ ~Truthy(local_stream_url[t])
        /\ counter = MinThreshold - 1

\* C9: with overlapping fetches the counter is in 0..T-1 wherever another
\* fetch can run, and a fetch that called the refresh did so once, after its
\* own failure raised the counter to the threshold.
C9_OverlapKeepsCounterBelowThreshold ==
    /\ counter \in 0..(retrieval_error_threshold - 1)
    /\ \A t \in Tasks :
           refresh_calls[t] # <<>> =>
               /\ PikFailed(t)
               /\ failed_retrieval_counter[t] = retrieval_error_threshold
               /\ Len(refresh_calls[t]) = 1

C9_Witness ==
    \E t1 \in Tasks, t2 \in Tasks :
        /\ t1 # t2
        /\ pc[t1] = "refresh" /\ pc[t2] = "refresh"
        /\ counter = 0

\* C10: an error of the snapshot operation other than PikIntercomException
\* leaves the fetch, with the counter as it was and no refresh called.
C10_OtherErrorsAreNotCounted ==
    \A t \in SeqTasks :
        pc[t] = "done" /\ snapshot_outcome[t] = Raise(OtherError) =>
            /\ result[t] = Raise(OtherError)
            /\ counter = counter_at_call
            /\ refresh_calls[t] = <<>>

C10_Witness ==
    \E t \in SeqTasks :
        /\ pc[t] = "done" /\ snapshot_outcome[t] = Raise(OtherError)
        /\ counter = MinThreshold - 1

====
